---- MODULE Spec2Model ----
(***************************************************************************)
(* The scrape orchestration of uber_analysis: the week loops of            *)
(*   forward  src/uber_scraper_main.py            main()                   *)
(*   merged   src/uber_scraper_merged.py          main()                   *)
(*   test     src/uber_scraper_weekloop_test.py   main()                   *)
(*   ckpt     src/uber_scraper_weekloop_2026-02-15.py  scrape_all_trips()  *)
(* together with the two durable files (the CSV ledger and visited.jsonl)  *)
(* and the portal, the operator and the process environment they run in.   *)
(*                                                                         *)
(* Time is counted in days; day 0 is a Monday, so the Mondays are the      *)
(* multiples of DaysPerWeek.  The portal holds the weeks from `oldest` to  *)
(* CurWeek; what a week's page lists is an input read when the page is     *)
(* loaded.                                                                 *)
(***************************************************************************)
EXTENDS Integers, Sequences, FiniteSets, TLC

(* ------------------------------ bounds --------------------------------- *)
\* weeks of history the portal can hold (week 0 .. week NumWeeks-1)
NumWeeks == 6
\* trip links a week's page lists at most
MaxTrips == 1
\* failures injected per behaviour (exceptions, missing controls, challenges, kills)
MaxFaults == 1
\* anchors on one activities page when its list is evaluated on its own
MaxLinks == 3
\* further pages behind the Load-more control
MaxMore == 2
\* last day of the stretch of the calendar whose Mondays are formatted
MaxDay == 800
\* elements missing from a trip page
MaxAbsent == 2
\* characters of a number token in a details text
MaxDigits == 3
\* largest distance and rate that are formatted, in hundredths
MaxCents == 110
\* fare items on one trip page
MaxItems == 3
\* li elements on one trip page when the sweep is evaluated on its own
MaxLi == 2
\* process runs per behaviour
MaxRuns == 2
\* weeks of history of the account in the resume specification
ResumeWeeks == 2

(* ------------------------- program constants --------------------------- *)
\* `if empty >= 3` (main.py:315, merged.py:315, weekloop_test.py:139)
EmptyLimit == 3
\* timedelta(days=7) (main.py:348)
DaysPerWeek == 7

(* ----------------------------- environment ----------------------------- *)
\* Monday of the present week, and the present day (a Wednesday)
CurWeek == DaysPerWeek * (NumWeeks - 1)
Today == CurWeek + 2
\* loop iterations explored per run
MaxIter == NumWeeks + 1

Variants == {"forward", "merged", "test", "ckpt"}
Running == {"top", "scrape", "advance", "prompt", "prompt2",
            "collect", "ktrip", "kmark"}
DupModes == {"none", "same"}
NoDate == -1

VARIABLES
    variant,      \* which program runs
    sticky,       \* portal: re-opening the activities URL keeps the selected week
    oldest,       \* portal: Monday of the oldest week with a Previous control after it
    budget,       \* failures the environment may inject
    faults,       \* failures injected so far
    run,          \* number of the current process run
    pc,           \* position of the control flow
    stop,         \* why the week loop ended
    shown,        \* portal: Monday of the week the activities page displays
    challenge,    \* portal: the challenge screen is displayed
    week_date,    \* forward: the week cursor
    week_num,     \* loop counter
    empty,        \* empty / empty_streak
    urls,         \* urls / trip_links of the current week
    idx,          \* position in urls
    trips,        \* records extracted for the current week
    total,        \* running total of rows
    visited,      \* ckpt: the in-memory visited set
    csv,          \* the CSV ledger file
    visitedFile,  \* visited.jsonl, a sequence of lines
    loads,        \* history: the trip-set loads of this run
    written,      \* history: records handed to the CSV writers, over all runs
    csvAtStart,   \* history: lines in the CSV when this run started
    marksAtStart, \* history: lines in visited.jsonl when this run started
    perWeek,      \* portal: trips listed by a week that has trips
    hist,         \* history: the steps and answers of this run
    calc          \* the function under evaluation: its input, position and result

vars == <<variant, sticky, oldest, budget, faults, run, pc, stop, shown, challenge,
          week_date, week_num, empty, urls, idx, trips, total, visited, csv,
          visitedFile, loads, written, csvAtStart, marksAtStart, perWeek, hist, calc>>

envVars == <<variant, sticky, oldest, budget, perWeek>>
progVars == <<variant, sticky, oldest, budget, faults, run, pc, stop, shown, challenge,
              week_date, week_num, empty, urls, idx, trips, total, visited, csv,
              visitedFile, loads, written, csvAtStart, marksAtStart, perWeek, hist>>
fileVars == <<csv, visitedFile>>

(* ------------------------------ the portal ------------------------------ *)
\* identifier of the i-th trip of the week starting on Monday w
Stride == MaxTrips + 2
TripOf(w, i) == (w \div DaysPerWeek) * Stride + i

\* a link is <<trip identifier, query string>>
Link(w, i) == <<TripOf(w, i), 0>>

\* the trip links on the page of week w when it lists n trips
Links(w, n, d) ==
    LET base == [i \in 1..n |-> Link(w, i)]
    IN  IF n = 0 \/ d = "none" THEN base ELSE Append(base, base[1])

\* what the page of week w may list: nothing, or perWeek trips, the first
\* link possibly twice
PageLists(w) == {Links(w, n, d) : n \in {0, perWeek}, d \in DupModes}

\* the week the activities page displays after page.goto(activities)
Landing(s) == IF sticky THEN s ELSE CurWeek

\* the Previous control is there
HasPrevious(s) == s > oldest

(* --------------------------- pure functions ---------------------------- *)
RECURSIVE DedupFrom(_, _)
DedupFrom(s, k) ==
    IF k > Len(s) THEN <<>>
    ELSE IF \E j \in 1..(k - 1) : s[j] = s[k] THEN DedupFrom(s, k + 1)
    ELSE <<s[k]>> \o DedupFrom(s, k + 1)

get_trip_urls_unfiltered(links) == links

\* .filter((v,i,a) => a.indexOf(v) === i)
get_trip_urls(links) == DedupFrom(links, 1)

\* d - timedelta(days=d.weekday())
get_monday_sundayFirst(d) == d - ((d + 1) % DaysPerWeek)

get_monday(d) == d - (d % DaysPerWeek)

\* trip_link.split("/")[-1].split("?")[0]
TripId(link) == link[1]

HEADER == [kind |-> "header", trip |-> 0, date |-> NoDate]
\* the challenge screen as a page: it carries no trip and no date
ChallengeScreen == <<-1, 0>>

Row(t) ==
    [kind |-> "row", trip |-> t,
     date |-> IF t = TripId(ChallengeScreen) THEN NoDate
              ELSE (t \div Stride) * DaysPerWeek]

\* extract_trip_data on the page of a trip link
extract_trip_data(link) == [trip |-> TripId(link)]

NoFile == [exists |-> FALSE, rows |-> <<>>]

save_csv_headerAlways(ts, f) ==
    IF ts = <<>> THEN f
    ELSE [exists |-> TRUE,
          rows |-> f.rows \o <<HEADER>> \o [i \in 1..Len(ts) |-> Row(ts[i].trip)]]

save_csv(ts, f) ==
    IF ts = <<>> THEN f
    ELSE [exists |-> TRUE,
          rows |-> (IF f.exists THEN f.rows ELSE <<HEADER>>)
                   \o [i \in 1..Len(ts) |-> Row(ts[i].trip)]]

RECURSIVE MaxDate(_, _)
MaxDate(rows, k) ==
    IF k > Len(rows) THEN NoDate
    ELSE LET m == MaxDate(rows, k + 1)
         IN  IF rows[k].date > m THEN rows[k].date ELSE m

\* csv.DictReader takes the first line as the field names
get_last_date(f) ==
    IF ~f.exists THEN [last |-> NoDate, rows |-> 0]
    ELSE IF f.rows = <<>> THEN [last |-> NoDate, rows |-> 0]
    ELSE [last |-> MaxDate(f.rows, 2), rows |-> Len(f.rows) - 1]

fetch_visited_none(file) == {}

\* line.strip(), blank lines dropped; a line is an identifier, 0 the empty string
fetch_visited(file) == {file[i] : i \in {j \in 1..Len(file) : file[j] /= 0}}

append_visited(trip_id, file) == Append(file, trip_id)

write_csv_header_if_needed(f) ==
    IF f.exists THEN f ELSE [exists |-> TRUE, rows |-> <<HEADER>>]

append_trip_row(row, f) == [exists |-> TRUE, rows |-> Append(f.rows, row)]

StreakStop_four(e) == e >= EmptyLimit + 1

\* if empty >= 3: break
StreakStop(e) == e >= EmptyLimit

NextStreak_noReset(e, n) == IF n = 0 THEN e + 1 ELSE e

\* if not urls: empty += 1 ... else: empty = 0
NextStreak(e, n) == IF n = 0 THEN e + 1 ELSE 0


OnTripError_abortWeek(i, n) == n + 1

\* except Exception as e: print(...) -- the for loop goes on with the next url
\* (main.py:338-339, merged.py:340-341, weekloop_2026-02-15.py:465-466)
OnTripError(i, n) == i + 1

(* ------------------------ the steps a handler takes ---------------------- *)
\* "probe"   check_for_security_challenge
\* "ack"     wait_for_security_clear has returned
\* "goto"    page.goto(activities)
\* "week"    navigate_to_week / click_previous_week
\* "more"    a click on Load more
\* "open"    page.goto(url) of a trip
\* "extract" extract_trip_data
Transitions == {"goto", "week", "more", "open"}
Audited == {"week", "more", "open", "extract"}

\* main.py:303-305, merged.py:299-303, weekloop_test.py:125-129
HeadSteps ==
    <<"probe">> \o
    (IF challenge THEN <<"ack", IF variant = "forward" THEN "week" ELSE "goto">> ELSE <<>>)

\* click_load_more, one click: main.py:140-158
LoadMoreSteps == <<"probe", "more", "probe">>

\* main.py:325-337, merged.py:326-339, up to page.goto(url)
OpenSteps == <<"probe">> \o (IF challenge THEN <<"ack">> ELSE <<>>) \o <<"open">>

\* the steps of a run so far, folded into the history record:
\*   fresh     a probe was made since the last page transition
\*   acked     wait_for_security_clear returned and no probe was made since
\*   unprobed  steps taken with no probe since the last page transition
\*   unchecked steps taken right after wait_for_security_clear returned
RECURSIVE Audit(_, _, _)
Audit(h, steps, k) ==
    IF k > Len(steps) THEN h
    ELSE LET s == steps[k]
             h1 == IF s = "probe" THEN [h EXCEPT !.fresh = TRUE, !.acked = FALSE]
                   ELSE IF s = "ack" THEN [h EXCEPT !.acked = TRUE]
                   ELSE [h EXCEPT
                           !.unprobed = IF s \in Audited /\ ~h.fresh THEN @ \cup {s} ELSE @,
                           !.unchecked = IF h.acked THEN @ \cup {s} ELSE @,
                           !.fresh = IF s \in Transitions THEN FALSE ELSE @,
                           !.acked = FALSE]
         IN  Audit(h1, steps, k + 1)

\* the first time the Previous control is not found, after how many loads
Missed(h) == [h EXCEPT !.missing = IF @ = 0 THEN Len(loads) ELSE @]

\* no function is under evaluation while a whole program runs
Idle == [op |-> "none"]

HistInit ==
    [week |-> NoDate, cursor |-> NoDate, intended |-> NoDate, recovered |-> FALSE,
     answer |-> "none", missing |-> 0, tried |-> <<>>, failed |-> {},
     fresh |-> FALSE, acked |-> FALSE, unprobed |-> {}, unchecked |-> {},
     start |-> NoDate, open |-> 0]

(* ------------------------------ initial state --------------------------- *)
InitProgram(V, S, b, o, t) ==
    /\ variant \in V
    /\ sticky \in S
    /\ oldest = o
    /\ budget = b
    /\ perWeek = t
    /\ faults = 0
    /\ run = 1
    /\ pc = "boot"
    /\ stop = "none"
    /\ shown = CurWeek
    /\ challenge = FALSE
    /\ week_date = 0
    /\ week_num = 0
    /\ empty = 0
    /\ urls = <<>>
    /\ idx = 1
    /\ trips = <<>>
    /\ total = 0
    /\ visited = {}
    /\ csv = NoFile
    /\ visitedFile = <<>>
    /\ loads = <<>>
    /\ written = 0
    /\ csvAtStart = 0
    /\ marksAtStart = 0
    /\ hist = HistInit

InitWith(V, S, b, o, t) == InitProgram(V, S, b, o, t) /\ calc = Idle

Mondays(o) == {w \in o..CurWeek : w % DaysPerWeek = 0}
Fault == faults < budget /\ faults' = faults + 1
NoFault == faults' = faults

(* ---------------- forward / merged / test: start of main() -------------- *)
\* main.py:245-292: get_last_date, the activities page, the start date snapped
\* to its Monday, navigate_to_week to the first week
StartForward ==
    /\ pc = "boot" /\ variant = "forward"
    /\ \E d \in oldest..(Today + DaysPerWeek) :
          /\ week_date' = get_monday(d)
          /\ shown' = get_monday(d)
          /\ hist' = Audit([hist EXCEPT !.start = d], <<"goto", "week">>, 1)
    /\ total' = get_last_date(csv).rows
    /\ week_num' = 0 /\ empty' = 0
    /\ pc' = "top"
    /\ NoFault
    /\ UNCHANGED <<envVars, calc, run, stop, challenge, urls, idx, trips, visited, fileVars,
                   loads, written, csvAtStart, marksAtStart>>

\* main.py:289: navigate_to_week raises; the call is outside the try of the loop
StartForwardRaises ==
    /\ pc = "boot" /\ variant = "forward"
    /\ \E d \in oldest..(Today + DaysPerWeek) :
          /\ week_date' = get_monday(d)
          /\ hist' = Audit([hist EXCEPT !.start = d], <<"goto">>, 1)
    /\ total' = get_last_date(csv).rows
    /\ Fault
    /\ pc' = "crashed" /\ stop' = "uncaught"
    /\ UNCHANGED <<envVars, calc, run, shown, challenge, week_num, empty, urls, idx, trips,
                   visited, fileVars, loads, written, csvAtStart, marksAtStart>>

\* merged.py:264-288, weekloop_test.py:111-118: the operator navigates to the
\* week to start from
StartBackward ==
    /\ pc = "boot" /\ variant \in {"merged", "test"}
    /\ shown' \in Mondays(oldest)
    /\ total' = IF variant = "merged" THEN get_last_date(csv).rows ELSE total
    /\ week_num' = 0 /\ empty' = 0
    /\ pc' = "top"
    /\ hist' = Audit(hist, <<"goto">>, 1)
    /\ NoFault
    /\ UNCHANGED <<envVars, calc, run, stop, challenge, week_date, urls, idx, trips, visited,
                   fileVars, loads, written, csvAtStart, marksAtStart>>

(* --------------------------- the week loop ------------------------------ *)
NextWeek_fortnight(d) == d + 2 * DaysPerWeek

\* the cursor moves to the following Monday
NextWeek(d) == d + DaysPerWeek

FutureWeek_weekLate == variant = "forward" /\ week_date > Today + DaysPerWeek

\* main.py:298-300: the cursor is past the present
FutureWeek == variant = "forward" /\ week_date > Today

\* the week displayed once the challenge check at the head of the iteration is
\* done: main.py:303-305 navigates to the cursor again, merged.py:299-303 and
\* weekloop_test.py:125-129 re-open the activities page
AfterCheck ==
    IF ~challenge THEN shown
    ELSE IF variant = "forward" THEN week_date
    ELSE Landing(shown)

\* the iteration that starts: the week displayed and the cursor, the week the
\* iteration was about to process, whether a challenge was acknowledged; the
\* start date is kept until the first iteration
Begun(h) ==
    [h EXCEPT !.week = AfterCheck, !.cursor = week_date,
              !.intended = IF variant = "forward" THEN week_date ELSE shown,
              !.recovered = challenge,
              !.answer = "none", !.tried = <<>>, !.start = NoDate]

\* main.py:294-300
ReachedFuture ==
    /\ pc = "top" /\ week_num < MaxIter /\ FutureWeek
    /\ week_num' = week_num + 1
    /\ pc' = "done" /\ stop' = "future"
    /\ NoFault
    /\ UNCHANGED <<envVars, calc, run, shown, challenge, week_date, empty, urls, idx, trips,
                   total, visited, fileVars, loads, written, csvAtStart, marksAtStart,
                   hist>>

\* main.py:294-321, merged.py:292-322, weekloop_test.py:120-143: the head of an
\* iteration, click_load_more, get_trip_urls and the empty-streak rule
LoadWeek ==
    /\ pc = "top" /\ week_num < MaxIter /\ ~FutureWeek
    /\ week_num' = week_num + 1
    /\ shown' = AfterCheck
    /\ challenge' = FALSE
    /\ \E page \in PageLists(AfterCheck) :
         LET u == get_trip_urls(page)
             e == NextStreak(empty, Len(u))
         IN  /\ urls' = u
             /\ empty' = e
             /\ loads' = Append(loads, [week |-> AfterCheck, n |-> Len(u),
                                        cursor |-> week_date])
             /\ IF u = <<>> /\ StreakStop(e)
                THEN pc' = "done" /\ stop' = "streak"
                ELSE /\ pc' = IF variant = "test" THEN "advance" ELSE "scrape"
                     /\ stop' = stop
    /\ idx' = 1
    /\ trips' = <<>>
    /\ hist' = Audit(Begun(hist), HeadSteps \o LoadMoreSteps, 1)
    /\ NoFault
    /\ UNCHANGED <<envVars, calc, run, week_date, total, visited, fileVars,
                   written, csvAtStart, marksAtStart>>

\* click_load_more or get_trip_urls raises: main.py:359-361, merged.py:362-364;
\* the test loop has no handler
LoadWeekRaises ==
    /\ pc = "top" /\ week_num < MaxIter /\ ~FutureWeek
    /\ week_num' = week_num + 1
    /\ shown' = AfterCheck
    /\ challenge' = FALSE
    /\ Fault
    /\ IF variant = "test"
       THEN pc' = "crashed" /\ stop' = "uncaught"
       ELSE pc' = "prompt" /\ stop' = stop
    /\ hist' = Audit(Begun(hist), HeadSteps, 1)
    /\ UNCHANGED <<envVars, calc, run, week_date, empty, urls,
                   idx, trips, total, visited, fileVars, loads, written, csvAtStart, marksAtStart>>

\* main.py:322-337, merged.py:323-339: one trip of the week
ScrapeTrip ==
    /\ pc = "scrape" /\ idx <= Len(urls)
    /\ trips' = Append(trips, extract_trip_data(urls[idx]))
    /\ idx' = idx + 1
    /\ challenge' = FALSE
    /\ hist' = Audit([hist EXCEPT !.tried = Append(@, urls[idx]),
                                  !.failed = @ \ {TripId(urls[idx])}],
                     OpenSteps \o <<"extract">>, 1)
    /\ NoFault
    /\ UNCHANGED <<envVars, calc, run, pc, stop, shown, week_date, week_num, empty, urls, total,
                   visited, fileVars, loads, written, csvAtStart, marksAtStart>>

\* main.py:338-339, merged.py:340-341: the trip raises, the error is printed
\* the trip URL answers with the challenge screen: the probe was made on the
\* page before, goto does not raise, and the record is read from that screen
ScrapeChallengeScreen ==
    /\ pc = "scrape" /\ idx <= Len(urls)
    /\ Fault
    /\ trips' = Append(trips, extract_trip_data(ChallengeScreen))
    /\ idx' = idx + 1
    /\ challenge' = TRUE
    /\ hist' = Audit([hist EXCEPT !.tried = Append(@, urls[idx]),
                                  !.failed = @ \ {TripId(urls[idx])}],
                     OpenSteps \o <<"extract">>, 1)
    /\ UNCHANGED <<envVars, calc, run, pc, stop, shown, week_date, week_num, empty, urls, total,
                   visited, fileVars, loads, written, csvAtStart, marksAtStart>>

ScrapeTripRaises ==
    /\ pc = "scrape" /\ idx <= Len(urls)
    /\ Fault
    /\ idx' = OnTripError(idx, Len(urls))
    /\ challenge' = FALSE
    /\ hist' = Audit([hist EXCEPT !.tried = Append(@, urls[idx]),
                                  !.failed = @ \cup {TripId(urls[idx])}],
                     OpenSteps, 1)
    /\ UNCHANGED <<envVars, calc, run, pc, stop, shown, week_date, week_num, empty, urls, trips,
                   total, visited, fileVars, loads, written, csvAtStart, marksAtStart>>

(* ------------------- persisting and moving to the next week ------------- *)
WeekDone == pc = "scrape" /\ idx > Len(urls)

Saved ==
    /\ csv' = save_csv(trips, csv)
    /\ total' = total + Len(trips)
    /\ written' = written + Len(trips)

\* main.py:341-343, 359-360, merged.py:343-345, 362-363: save_csv raises when it
\* opens the file (main.py:203), nothing is written and the handler prompts
SaveRaises ==
    /\ WeekDone /\ variant \in {"forward", "merged"}
    /\ trips /= <<>>
    /\ Fault
    /\ pc' = "prompt"
    /\ UNCHANGED <<envVars, calc, run, stop, shown, challenge, week_date, week_num, empty,
                   urls, idx, trips, total, visited, fileVars, loads, written, csvAtStart,
                   marksAtStart, hist>>

\* main.py:341-357: save_csv, the cursor advances, navigate_to_week
AdvanceForward ==
    /\ WeekDone /\ variant = "forward"
    /\ Saved
    /\ week_date' = NextWeek(week_date)
    /\ IF week_date' > Today
       THEN /\ pc' = "done" /\ stop' = "future" /\ shown' = shown
            /\ hist' = hist
       ELSE /\ pc' = "top" /\ stop' = stop /\ shown' = week_date'
            /\ hist' = Audit(hist, <<"goto", "week">>, 1)
    /\ NoFault
    /\ UNCHANGED <<envVars, calc, run, challenge, week_num, empty, urls, idx, trips, visited,
                   visitedFile, loads, csvAtStart, marksAtStart>>

\* main.py:354-361: navigate_to_week raises after the activities page was re-opened
AdvanceForwardRaises ==
    /\ WeekDone /\ variant = "forward"
    /\ Saved
    /\ week_date' = NextWeek(week_date)
    /\ week_date' <= Today
    /\ Fault
    /\ shown' = Landing(shown)
    /\ pc' = "prompt"
    /\ hist' = Audit(hist, <<"goto">>, 1)
    /\ UNCHANGED <<envVars, calc, run, stop, challenge, week_num, empty, urls, idx, trips,
                   visited, visitedFile, loads, csvAtStart, marksAtStart>>

\* merged.py:343-360: save_csv, the activities page, click_previous_week
AdvanceMerged ==
    /\ WeekDone /\ variant = "merged"
    /\ Saved
    /\ IF HasPrevious(Landing(shown))
       THEN /\ pc' = "top" /\ shown' = Landing(shown) - DaysPerWeek
            /\ hist' = Audit(hist, <<"goto", "week">>, 1)
       ELSE /\ pc' = "prompt2" /\ shown' = Landing(shown)
            /\ hist' = Missed(Audit(hist, <<"goto">>, 1))
    /\ NoFault
    /\ UNCHANGED <<envVars, calc, run, stop, challenge, week_date, week_num, empty, urls, idx,
                   trips, visited, visitedFile, loads, csvAtStart, marksAtStart>>

\* merged.py:350-351, 362-364: re-opening the activities page raises
AdvanceMergedRaises ==
    /\ WeekDone /\ variant = "merged"
    /\ Saved
    /\ Fault
    /\ shown' = Landing(shown)
    /\ pc' = "prompt"
    /\ UNCHANGED <<envVars, calc, run, stop, challenge, week_date, week_num, empty, urls, idx,
                   trips, visited, visitedFile, loads, csvAtStart, marksAtStart, hist>>

\* merged.py:356-358: no selector of click_previous_week is visible in time
PreviousMissingMerged ==
    /\ WeekDone /\ variant = "merged"
    /\ Saved
    /\ HasPrevious(Landing(shown))
    /\ Fault
    /\ shown' = Landing(shown)
    /\ pc' = "prompt2"
    /\ hist' = Missed(Audit(hist, <<"goto">>, 1))
    /\ UNCHANGED <<envVars, calc, run, stop, challenge, week_date, week_num, empty, urls, idx,
                   trips, visited, visitedFile, loads, csvAtStart, marksAtStart>>

\* weekloop_test.py:145-148: click_previous_week on the page as it is
AdvanceTest ==
    /\ pc = "advance" /\ variant = "test"
    /\ IF HasPrevious(shown)
       THEN /\ pc' = "top" /\ shown' = shown - DaysPerWeek
            /\ hist' = Audit(hist, <<"week">>, 1)
       ELSE /\ pc' = "prompt2" /\ shown' = shown
            /\ hist' = Missed(hist)
    /\ NoFault
    /\ UNCHANGED <<envVars, calc, run, stop, challenge, week_date, week_num, empty, urls, idx,
                   trips, total, visited, fileVars, loads, written, csvAtStart, marksAtStart>>

PreviousMissingTest ==
    /\ pc = "advance" /\ variant = "test"
    /\ HasPrevious(shown)
    /\ Fault
    /\ pc' = "prompt2"
    /\ hist' = Missed(hist)
    /\ UNCHANGED <<envVars, calc, run, stop, shown, challenge, week_date, week_num, empty, urls,
                   idx, trips, total, visited, fileVars, loads, written, csvAtStart, marksAtStart>>

(* ------------------------------ the operator ---------------------------- *)
\* main.py:361-363, merged.py:364-366
PromptStop ==
    /\ pc = "prompt"
    /\ pc' = "done" /\ stop' = "operator"
    /\ NoFault
    /\ UNCHANGED <<envVars, calc, run, shown, challenge, week_date, week_num, empty, urls, idx,
                   trips, total, visited, fileVars, loads, written, csvAtStart, marksAtStart,
                   hist>>

\* main.py:364-365; merged.py:367-371
PromptSkip ==
    /\ pc = "prompt"
    /\ IF variant = "forward"
       THEN /\ week_date' = NextWeek(week_date) /\ shown' = shown
            /\ hist' = [hist EXCEPT !.answer = "skip"]
       ELSE /\ week_date' = week_date
            /\ IF HasPrevious(Landing(shown))
               THEN /\ shown' = Landing(shown) - DaysPerWeek
                    /\ hist' = Audit([hist EXCEPT !.answer = "skip"], <<"goto", "week">>, 1)
               ELSE /\ shown' = Landing(shown)
                    /\ hist' = Missed(Audit([hist EXCEPT !.answer = "skip"], <<"goto">>, 1))
    /\ pc' = "top"
    /\ NoFault
    /\ UNCHANGED <<envVars, calc, run, stop, challenge, week_num, empty, urls, idx, trips, total,
                   visited, fileVars, loads, written, csvAtStart, marksAtStart>>

\* merged.py:367-370: page.goto raises inside the except handler; the failure
\* that led to the prompt persists, so it is not counted a second time
PromptSkipRaises ==
    /\ pc = "prompt" /\ variant = "merged"
    /\ NoFault
    /\ pc' = "crashed" /\ stop' = "uncaught"
    /\ hist' = [hist EXCEPT !.answer = "skip"]
    /\ UNCHANGED <<envVars, calc, run, shown, challenge, week_date, week_num, empty, urls, idx,
                   trips, total, visited, fileVars, loads, written, csvAtStart, marksAtStart>>

\* main.py:366-367, merged.py:372-373
PromptRetry ==
    /\ pc = "prompt"
    /\ week_num' = week_num - 1
    /\ pc' = "top"
    /\ hist' = [hist EXCEPT !.answer = "retry"]
    /\ NoFault
    /\ UNCHANGED <<envVars, calc, run, stop, shown, challenge, week_date, empty, urls, idx, trips,
                   total, visited, fileVars, loads, written, csvAtStart, marksAtStart>>

\* merged.py:358-360, weekloop_test.py:148-150
Prompt2Stop ==
    /\ pc = "prompt2"
    /\ pc' = "done" /\ stop' = "operator"
    /\ NoFault
    /\ UNCHANGED <<envVars, calc, run, shown, challenge, week_date, week_num, empty, urls, idx,
                   trips, total, visited, fileVars, loads, written, csvAtStart, marksAtStart,
                   hist>>

\* "Navigate manually, Enter to continue": the operator may have moved the
\* page one week back, or not
Prompt2Continue ==
    /\ pc = "prompt2"
    /\ shown' \in {shown} \cup {w \in {shown - DaysPerWeek} : w >= oldest}
    /\ pc' = "top"
    /\ hist' = [hist EXCEPT !.answer = "manual"]
    /\ NoFault
    /\ UNCHANGED <<envVars, calc, run, stop, challenge, week_date, week_num, empty, urls, idx,
                   trips, total, visited, fileVars, loads, written, csvAtStart, marksAtStart>>

(* ------------------- ckpt: scrape_all_trips (weekloop_2026-02-15) -------- *)
\* :439-445 fetch_visited, write_csv_header_if_needed, login_and_navigate
StartCkpt ==
    /\ pc = "boot" /\ variant = "ckpt"
    /\ visited' = fetch_visited(visitedFile)
    /\ csv' = write_csv_header_if_needed(csv)
    /\ shown' = CurWeek
    /\ pc' = "collect"
    /\ NoFault
    /\ UNCHANGED <<envVars, calc, run, stop, challenge, week_date, week_num, empty, urls, idx,
                   trips, total, visitedFile, loads, written, csvAtStart, marksAtStart, hist>>

\* :450-460 the hrefs of the View Details buttons, as they are
Collect ==
    /\ pc = "collect"
    /\ \E page \in PageLists(shown) :
          /\ urls' = page
          /\ loads' = Append(loads, [week |-> shown, n |-> Len(urls'), cursor |-> week_date])
    /\ idx' = 1
    /\ pc' = "ktrip"
    /\ hist' = [hist EXCEPT !.week = shown, !.tried = <<>>]
    /\ NoFault
    /\ UNCHANGED <<envVars, calc, run, stop, shown, challenge, week_date, week_num, empty, trips,
                   total, visited, fileVars, written, csvAtStart, marksAtStart>>

\* :359 page = await context.new_page(): one more trip page is open
NewPage(n) == n + 1

ClosePage_onReturn(n, outcome) == IF outcome = "returned" THEN n - 1 ELSE n

\* :433-434 finally: await page.close(), however the try block was left
ClosePage(n, outcome) == n - 1

\* :356-358 scrape_trip_details returns at once for a visited identifier
TripSkipped ==
    /\ pc = "ktrip" /\ idx <= Len(urls)
    /\ TripId(urls[idx]) \in visited
    /\ idx' = idx + 1
    /\ hist' = [hist EXCEPT !.tried = Append(@, urls[idx])]
    /\ NoFault
    /\ UNCHANGED <<envVars, calc, run, pc, stop, shown, challenge, week_date, week_num, empty,
                   urls, trips, total, visited, fileVars, loads, written, csvAtStart, marksAtStart>>

\* :359-430 the trip page is parsed and append_trip_row writes its row
TripRow ==
    /\ pc = "ktrip" /\ idx <= Len(urls)
    /\ TripId(urls[idx]) \notin visited
    /\ csv' = append_trip_row(Row(TripId(urls[idx])), csv)
    /\ written' = written + 1
    /\ pc' = "kmark"
    /\ hist' = [hist EXCEPT !.tried = Append(@, urls[idx]),
                            !.failed = @ \ {TripId(urls[idx])},
                            !.open = NewPage(@)]
    /\ NoFault
    /\ UNCHANGED <<envVars, calc, run, stop, shown, challenge, week_date, week_num, empty, urls,
                   idx, trips, total, visited, visitedFile, loads, csvAtStart, marksAtStart>>

\* :431 append_visited
TripMark ==
    /\ pc = "kmark"
    /\ visitedFile' = append_visited(TripId(urls[idx]), visitedFile)
    /\ idx' = idx + 1
    /\ pc' = "ktrip"
    /\ hist' = [hist EXCEPT !.open = ClosePage(@, "returned")]
    /\ NoFault
    /\ UNCHANGED <<envVars, calc, run, stop, shown, challenge, week_date, week_num, empty, urls,
                   trips, total, visited, csv, loads, written, csvAtStart, marksAtStart>>

\* :431, 465-466 append_visited raises (the file cannot be written); the
\* handler of scrape_all_trips prints the error
MarkRaises ==
    /\ pc = "kmark"
    /\ Fault
    /\ idx' = OnTripError(idx, Len(urls))
    /\ pc' = "ktrip"
    /\ hist' = [hist EXCEPT !.failed = @ \cup {TripId(urls[idx])},
                            !.open = ClosePage(@, "raised")]
    /\ UNCHANGED <<envVars, calc, run, stop, shown, challenge, week_date, week_num, empty, urls,
                   trips, total, visited, fileVars, loads, written, csvAtStart, marksAtStart>>

\* :360-429, 433-434, 465-466 the trip page raises before the row is written
TripRaises ==
    /\ pc = "ktrip" /\ idx <= Len(urls)
    /\ TripId(urls[idx]) \notin visited
    /\ Fault
    /\ idx' = OnTripError(idx, Len(urls))
    /\ hist' = [hist EXCEPT !.tried = Append(@, urls[idx]),
                            !.failed = @ \cup {TripId(urls[idx])},
                            !.open = ClosePage(NewPage(@), "raised")]
    /\ UNCHANGED <<envVars, calc, run, pc, stop, shown, challenge, week_date, week_num, empty,
                   urls, trips, total, visited, fileVars, loads, written, csvAtStart, marksAtStart>>

\* :468-477 the Previous button, or the end of the loop
PreviousOrEnd ==
    /\ pc = "ktrip" /\ idx > Len(urls)
    /\ IF HasPrevious(shown)
       THEN pc' = "collect" /\ shown' = shown - DaysPerWeek /\ stop' = stop /\ hist' = hist
       ELSE pc' = "done" /\ shown' = shown /\ stop' = "nohistory" /\ hist' = Missed(hist)
    /\ NoFault
    /\ UNCHANGED <<envVars, calc, run, challenge, week_date, week_num, empty, urls, idx, trips,
                   total, visited, fileVars, loads, written, csvAtStart, marksAtStart>>

(* ----------------------------- the environment -------------------------- *)
\* the portal puts up its verification screen
ChallengeAppears ==
    /\ pc \in {"top", "scrape"} /\ ~challenge
    /\ Fault
    /\ challenge' = TRUE
    /\ UNCHANGED <<envVars, calc, run, pc, stop, shown, week_date, week_num, empty, urls, idx,
                   trips, total, visited, fileVars, loads, written, csvAtStart, marksAtStart,
                   hist>>

\* the process is killed
Crash ==
    /\ pc \in Running
    /\ Fault
    /\ pc' = "crashed"
    /\ UNCHANGED <<envVars, calc, run, stop, shown, challenge, week_date, week_num, empty, urls,
                   idx, trips, total, visited, fileVars, loads, written, csvAtStart, marksAtStart,
                   hist>>

\* the program is started again: only the two files are kept
Restart ==
    /\ pc \in {"done", "crashed"} /\ run < MaxRuns
    /\ run' = run + 1
    /\ pc' = "boot" /\ stop' = "none"
    /\ shown' = CurWeek /\ challenge' = FALSE
    /\ week_date' = 0 /\ week_num' = 0 /\ empty' = 0
    /\ urls' = <<>> /\ idx' = 1 /\ trips' = <<>> /\ total' = 0
    /\ visited' = {}
    /\ loads' = <<>>
    /\ written' = written
    /\ csvAtStart' = Len(csv.rows)
    /\ marksAtStart' = Len(visitedFile)
    /\ hist' = HistInit
    /\ NoFault
    /\ UNCHANGED <<envVars, calc, fileVars>>

(* ----------------------------- specifications --------------------------- *)
Loop ==
    \/ StartForward \/ StartBackward \/ ReachedFuture \/ LoadWeek \/ ScrapeTrip
    \/ AdvanceForward \/ AdvanceMerged \/ Prompt2Stop

LoopFaults ==
    \/ LoadWeekRaises \/ ScrapeTripRaises \/ AdvanceForwardRaises
    \/ AdvanceMergedRaises \/ PreviousMissingMerged \/ PreviousMissingTest
    \/ ChallengeAppears \/ PromptStop \/ PromptSkip \/ PromptRetry
    \/ StartForwardRaises \/ PromptSkipRaises \/ SaveRaises

Ckpt ==
    \/ StartCkpt \/ Collect \/ TripSkipped \/ TripRow \/ TripMark \/ PreviousOrEnd

\* the three week loops, nothing fails
InitWalk == InitWith({"forward", "merged", "test"}, BOOLEAN, 0, 0, MaxTrips)
NextWalk == Loop \/ AdvanceTest \/ Prompt2Continue
SpecWalk == InitWalk /\ [][NextWalk]_vars

\* the three week loops with failures, challenges and operator answers
InitFault == InitWith({"forward", "merged", "test"}, BOOLEAN, MaxFaults, 0, MaxTrips)
NextFault == NextWalk \/ LoopFaults
SpecFault == InitFault /\ [][NextFault]_vars

\* runs one after the other over the same files of an account with a short
\* history; a run may be killed; the operator stops at a missing Previous
InitResume ==
    InitWith({"forward", "merged", "ckpt"}, {TRUE}, MaxFaults,
             CurWeek - DaysPerWeek * (ResumeWeeks - 1), MaxTrips)
NextResume == Loop \/ Ckpt \/ TripRaises \/ Crash \/ Restart
SpecResume == InitResume /\ [][NextResume]_vars

\* one run over the same account, its weeks listing one trip more; a trip may
\* raise, and nothing else fails
InitTrips ==
    InitWith({"forward", "merged", "ckpt"}, {TRUE}, MaxFaults,
             CurWeek - DaysPerWeek * (ResumeWeeks - 1), MaxTrips + 1)
NextTrips ==
    \/ Loop \/ ScrapeTripRaises
    \/ StartCkpt \/ Collect \/ TripRow \/ TripMark \/ PreviousOrEnd
    \/ TripRaises \/ MarkRaises
SpecTrips == InitTrips /\ [][NextTrips]_vars

\* the forward variant alone, with failures, challenges and operator answers
\* the three loops as one sequential program that always takes its next step:
\* a prompt is answered, a challenge is acknowledged, and exceptions (and with
\* them the retry answers) are limited by the budget; the portal keeps
\* ResumeWeeks weeks of history
InitLive ==
    InitWith({"forward", "merged", "ckpt"}, BOOLEAN, MaxFaults,
             CurWeek - DaysPerWeek * (ResumeWeeks - 1), MaxTrips)
NextLive ==
    \/ Loop
    \/ StartCkpt \/ Collect \/ TripRow \/ TripMark \/ PreviousOrEnd
    \/ LoadWeekRaises \/ ChallengeAppears \/ PromptStop \/ PromptSkip \/ PromptRetry
SpecLive == InitLive /\ [][NextLive]_vars /\ WF_vars(NextLive)

\* the forward and merged loops with challenge screens, on the week page or
\* in answer to a trip URL
InitChallenge == InitWith({"forward", "merged"}, BOOLEAN, MaxFaults, 0, MaxTrips)
NextChallenge == Loop \/ Prompt2Continue \/ ChallengeAppears \/ ScrapeChallengeScreen
SpecChallenge == InitChallenge /\ [][NextChallenge]_vars

InitForward == InitWith({"forward"}, BOOLEAN, MaxFaults, 0, MaxTrips)
NextForward ==
    \/ StartForward \/ StartForwardRaises \/ ReachedFuture \/ LoadWeek \/ LoadWeekRaises
    \/ ScrapeTrip \/ ScrapeTripRaises \/ AdvanceForward \/ AdvanceForwardRaises
    \/ ChallengeAppears \/ PromptStop \/ PromptSkip \/ PromptRetry \/ SaveRaises
SpecForward == InitForward /\ [][NextForward]_vars

(* ------------------- functions evaluated on their own ------------------- *)
\* no program runs while a function is evaluated on inputs of its own
NoProgram == InitProgram({"none"}, {FALSE}, 0, 0, 0)

(* ---- click_load_more and get_trip_urls on one activities page ---- *)
\* the hrefs a page may list: two trips, one of them also with a query string
Hrefs == {<<TripOf(0, 1), 0>>, <<TripOf(0, 1), 1>>, <<TripOf(0, 2), 0>>}

RECURSIVE SeqsUpTo(_, _)
SeqsUpTo(S, n) ==
    IF n = 0 THEN {<<>>}
    ELSE LET shorter == SeqsUpTo(S, n - 1)
         IN  shorter \cup {Append(q, x) : q \in {p \in shorter : Len(p) = n - 1}, x \in S}

\* main.py:138: both selectors match the control, has-text ignores letter case
Selectors == 1..2

\* a page with `more` further pages behind its Load-more control, and the
\* anchors it lists once they are all loaded
InitLoad ==
    /\ NoProgram
    /\ \E a \in SeqsUpTo(Hrefs, MaxLinks), m \in 0..MaxMore :
         calc = [op |-> "load", anchors |-> a, more |-> m, at |-> "loop", sel |-> 1,
                 count |-> 0, fails |-> 0, urls |-> <<>>]

\* main.py:144-154: the control is visible to the selector, the click succeeds
\* and the while loop starts over
LoadMoreClick ==
    /\ calc.op = "load" /\ calc.at = "loop" /\ calc.more > 0
    /\ calc' = [calc EXCEPT !.more = @ - 1, !.count = @ + 1, !.sel = 1]
    /\ UNCHANGED progVars

\* main.py:147-158: btn.click() raises, `except: pass`, and the for loop goes
\* on with the next selector; after the last one found is False and the while
\* loop is left. What made the first click fail may make the second fail too.
LoadMoreClickRaises ==
    /\ calc.op = "load" /\ calc.at = "loop" /\ calc.more > 0
    /\ calc.sel = 1 => calc.fails < MaxFaults
    /\ calc' = [calc EXCEPT !.fails = IF calc.sel = 1 THEN @ + 1 ELSE @,
                            !.sel = IF calc.sel + 1 \in Selectors THEN @ + 1 ELSE @,
                            !.at = IF calc.sel + 1 \in Selectors THEN @ ELSE "returned"]
    /\ UNCHANGED progVars

\* main.py:144-158: no selector sees a visible control, found stays False
LoadMoreEnds ==
    /\ calc.op = "load" /\ calc.at = "loop" /\ calc.more = 0
    /\ calc' = [calc EXCEPT !.at = "returned"]
    /\ UNCHANGED progVars

\* main.py:309 after 308: get_trip_urls on the page as click_load_more left it
ListTrips ==
    /\ calc.op = "load" /\ calc.at = "returned"
    /\ calc' = [calc EXCEPT !.at = "listed", !.urls = get_trip_urls(calc.anchors)]
    /\ UNCHANGED progVars

NextLoad == LoadMoreClick \/ LoadMoreClickRaises \/ LoadMoreEnds \/ ListTrips
SpecLoad == InitLoad /\ [][NextLoad]_vars

(* ---- format_week_range on the Mondays of a stretch of the calendar ---- *)
\* day 0 is Monday 2024-01-01; a datetime is its number of days since then
BaseYear == 2024

IsLeap(y) == (y % 4 = 0 /\ y % 100 /= 0) \/ y % 400 = 0
DaysInYear(y) == IF IsLeap(y) THEN 366 ELSE 365
DaysInMonth(y, m) ==
    IF m = 2 THEN (IF IsLeap(y) THEN 29 ELSE 28)
    ELSE IF m \in {4, 6, 9, 11} THEN 30
    ELSE 31

\* datetime.year, .month, .day of the datetime n days after day 0
RECURSIVE YmdFrom(_, _, _)
YmdFrom(y, m, n) ==
    IF m = 1 /\ n >= DaysInYear(y) THEN YmdFrom(y + 1, 1, n - DaysInYear(y))
    ELSE IF n >= DaysInMonth(y, m) THEN YmdFrom(y, m + 1, n - DaysInMonth(y, m))
    ELSE [year |-> y, month |-> m, day |-> n + 1]

Ymd(n) == YmdFrom(BaseYear, 1, n)

\* strftime('%b') in the C locale
MonthAbbr == <<"Jan", "Feb", "Mar", "Apr", "May", "Jun",
               "Jul", "Aug", "Sep", "Oct", "Nov", "Dec">>

DigitChars == <<"0", "1", "2", "3", "4", "5", "6", "7", "8", "9">>

\* str(n) of a natural number, one character per element
RECURSIVE Str(_)
Str(n) == IF n < 10 THEN <<DigitChars[n + 1]>> ELSE Str(n \div 10) \o <<DigitChars[(n % 10) + 1]>>

\* the character \u2013 of the format string
EnDash == "u2013"

\* f"{d.strftime('%b')} {d.day}, {d.year}"
DateText(month, day, year) == <<MonthAbbr[month], " ">> \o day \o <<",", " ">> \o year

format_week_range_padded(monday) ==
    LET end == monday + DaysPerWeek
        a == Ymd(monday)
        b == Ymd(end)
        Str2(n) == <<DigitChars[(n \div 10) + 1], DigitChars[(n % 10) + 1]>>
    IN  DateText(a.month, Str2(a.day), Str(a.year)) \o <<" ", EnDash, " ">>
        \o DateText(b.month, Str2(b.day), Str(b.year))

\* main.py:175-178
format_week_range(monday) ==
    LET end == monday + DaysPerWeek
        a == Ymd(monday)
        b == Ymd(end)
    IN  DateText(a.month, Str(a.day), Str(a.year)) \o <<" ", EnDash, " ">>
        \o DateText(b.month, Str(b.day), Str(b.year))

\* the Mondays navigate_to_week may be called with
InitDates ==
    /\ NoProgram
    /\ \E n \in 0..MaxDay :
         /\ n = get_monday(n)
         /\ calc = [op |-> "format", monday |-> n, at |-> "call", text |-> <<>>]

\* main.py:183: week_str = format_week_range(monday)
FormatWeek ==
    /\ calc.op = "format" /\ calc.at = "call"
    /\ calc' = [calc EXCEPT !.at = "done", !.text = format_week_range(calc.monday)]
    /\ UNCHANGED progVars

NextDates == FormatWeek
SpecDates == InitDates /\ [][NextDates]_vars

(* ---- extract_trip_data on a trip page with elements missing ---- *)
\* what a trip page may hold, one name per matcher of the script
HeaderParts == {"header", "duration", "distanceEl", "address1", "address2", "pointsEl",
                "mileRate", "minRate", "heading", "tipIncluded"}
LineItems == {"Base", "Distance", "Time", "Surge", "Promotion", "Minimum Fare",
              "Wait Time", "Fare", "Your earnings", "Tip"}
FeeLines == {"Region or City Fee", "Airport Fee", "insurance and operational",
             "Uber Service Fee", "Total customer fare"}
Elements == HeaderParts \cup LineItems \cup FeeLines

\* the text captured from element e of the page
Val(e) == <<"text", e>>

\* the subsets of S with at most k elements
RECURSIVE SubsetsUpTo(_, _)
SubsetsUpTo(S, k) ==
    IF k = 0 THEN {{}}
    ELSE LET P == SubsetsUpTo(S, k - 1)
         IN  P \cup {p \cup {x} : p \in P, x \in S}

Found_blank(page, e, default) == IF e \in page THEN Val(e) ELSE ""

\* `m ? m[1] : default` for the matcher of element e
Found(page, e, default) == IF e \in page THEN Val(e) ELSE default

\* main.py:30-116, the returned object
ExtractFields(page) ==
    LET \* main.py:46-52: the leaf elements holding ', US', in document order
        addresses == (IF "address1" \in page THEN <<Val("address1")>> ELSE <<>>)
                     \o (IF "address2" \in page THEN <<Val("address2")>> ELSE <<>>)
        pickup == IF Len(addresses) >= 1 THEN addresses[1] ELSE ""
        \* main.py:75-88: the sweep over the li elements sets a field to the
        \* value of the item that matches it; an item has the words of its
        \* own field only
        item == [e \in LineItems |-> Found(page, e, "0")]
        \* main.py:102-106: a heading with an amount replaces the total
        total0 == IF "heading" \in page THEN Val("heading") ELSE item["Your earnings"]
        \* main.py:107-110
        tip0 == IF item["Tip"] = "0" THEN Found(page, "tipIncluded", "0") ELSE item["Tip"]
    IN  [date |-> Found(page, "header", ""),
         time |-> Found(page, "header", ""),
         rideType |-> Found(page, "header", ""),
         distancePay |-> item["Distance"], timePay |-> item["Time"],
         surge |-> item["Surge"], promotion |-> item["Promotion"],
         base |-> item["Base"], fare |-> item["Fare"], tip |-> tip0,
         minFare |-> item["Minimum Fare"], waitTime |-> item["Wait Time"],
         regionFee |-> Found(page, "Region or City Fee", "0"),
         airportFee |-> Found(page, "Airport Fee", "0"),
         insuranceFee |-> Found(page, "insurance and operational", "0"),
         uberFee |-> Found(page, "Uber Service Fee", "0"),
         points |-> Found(page, "pointsEl", "0"),
         city |-> IF pickup = "" THEN "" ELSE <<"city", pickup>>,
         pickup |-> pickup,
         dropoff |-> IF Len(addresses) >= 2 THEN addresses[2] ELSE "",
         distance |-> Found(page, "distanceEl", ""),
         durationMin |-> Found(page, "duration", "0"),
         perMile |-> Found(page, "mileRate", "0"),
         perMin |-> Found(page, "minRate", "0"),
         totalEarnings |-> total0,
         customerFare |-> Found(page, "Total customer fare", "0")]

\* a trip page from which up to MaxAbsent elements are missing, or which
\* holds one element at most
InitPage ==
    /\ NoProgram
    /\ \E p \in {Elements \ s : s \in SubsetsUpTo(Elements, MaxAbsent)}
                \cup SubsetsUpTo(Elements, 1) :
         calc = [op |-> "extract", page |-> p, at |-> "call", record |-> <<>>]

\* main.py:337: trips.append(extract_trip_data(page))
ExtractPage ==
    /\ calc.op = "extract" /\ calc.at = "call"
    /\ calc' = [calc EXCEPT !.at = "done", !.record = ExtractFields(calc.page)]
    /\ UNCHANGED progVars

NextPage == ExtractPage
SpecPage == InitPage /\ [][NextPage]_vars

(* ---- parse_fare_line on the details text of one fare item ---- *)
\* a text is a sequence of characters and words: a digit, ".", " ", "$", "/",
\* "(", the sign "times" (U+00D7), the letter "x", and the words "mile",
\* "MILE", "min", "MIN", "ute", "km"
NumChars == {DigitChars[i] : i \in 1..10} \cup {"."}

\* re.IGNORECASE
Lower(tok) == IF tok = "MILE" THEN "mile" ELSE IF tok = "MIN" THEN "min" ELSE tok

At(t, i) == IF i \in 1..Len(t) THEN t[i] ELSE "end"

\* where the longest match of [\d\.]* that starts at i ends, and of \s*
RECURSIVE RunEnd(_, _)
RunEnd(t, i) == IF At(t, i) \in NumChars THEN RunEnd(t, i + 1) ELSE i
RECURSIVE SkipSpaces(_, _)
SkipSpaces(t, i) == IF At(t, i) = " " THEN SkipSpaces(t, i + 1) ELSE i

\* ([\d\.]+)\s*<unit>\s*x\s*\$([\d\.]+)/<unit> matched at position i, <unit>
\* being mile, or min(?:ute)? before the sign and min after the slash: the
\* groups are the longest runs, no shorter one is followed by what comes next
MatchAt(t, i, unit) ==
    LET e1 == RunEnd(t, i)
        u1 == SkipSpaces(t, e1)
        a1 == IF unit = "min" /\ Lower(At(t, u1 + 1)) = "ute" THEN u1 + 2 ELSE u1 + 1
        x == SkipSpaces(t, a1)
        d == SkipSpaces(t, x + 1)
        e2 == RunEnd(t, d + 1)
    IN  [ok |-> /\ e1 > i
                /\ Lower(At(t, u1)) = unit
                /\ At(t, x) = "times"
                /\ At(t, d) = "$"
                /\ e2 > d + 1
                /\ At(t, e2) = "/"
                /\ Lower(At(t, e2 + 1)) = unit,
         g1 |-> SubSeq(t, i, e1 - 1),
         g2 |-> SubSeq(t, d + 1, e2 - 1)]

\* re.search: the match at the leftmost position that has one
Search(t, unit) ==
    LET hits == {i \in 1..Len(t) : MatchAt(t, i, unit).ok}
    IN  IF hits = {} THEN [ok |-> FALSE, g1 |-> <<>>, g2 |-> <<>>]
        ELSE MatchAt(t, CHOOSE i \in hits : \A j \in hits : i <= j, unit)

\* float(s) accepts digits with at most one point and at least one digit
IsFloat(s) ==
    /\ Cardinality({k \in 1..Len(s) : s[k] = "."}) <= 1
    /\ \E k \in 1..Len(s) : s[k] /= "."

\* decimal places a value is kept with: a value is a whole number of units of
\* 10^-Places
Places == MaxDigits
Unit == 10 ^ Places

DigitOf(c) == CHOOSE n \in 0..9 : DigitChars[n + 1] = c

\* the digits of s read as one whole number
RECURSIVE Number(_)
Number(s) ==
    IF s = <<>> THEN 0
    ELSE 10 * Number(SubSeq(s, 1, Len(s) - 1)) + DigitOf(s[Len(s)])

IsDigit(c) == c /= "."
\* the digits after the point
Decimals(s) ==
    IF \E k \in 1..Len(s) : s[k] = "."
    THEN Len(s) - (CHOOSE k \in 1..Len(s) : s[k] = ".")
    ELSE 0

Float_whole(s) ==
    LET point == IF \E k \in 1..Len(s) : s[k] = "."
                 THEN CHOOSE k \in 1..Len(s) : s[k] = "." ELSE Len(s) + 1
    IN  Number(SubSeq(s, 1, point - 1)) * Unit

\* float(s) of a text float() accepts
Float(s) == Number(SelectSeq(s, IsDigit)) * (10 ^ (Places - Decimals(s)))

\* what a call of parse_fare_line ends with: the dictionary it returns, or the
\* exception it raises
NoKeys == <<>>
Returns(d) == [raises |-> "nothing", result |-> d]
ValueError == [raises |-> "ValueError", result |-> NoKeys]
Keys(out) == DOMAIN out.result

\* weekloop_2026-02-15.py:45-79
parse_fare_line(item_label, text) ==
    LET mile_match == Search(text, "mile")
        minute_match == Search(text, "min")
        miles == IF mile_match.ok
                 THEN [miles |-> Float(mile_match.g1),
                       rate_per_mile |-> Float(mile_match.g2)]
                 ELSE NoKeys
        minutes == IF minute_match.ok
                   THEN [minutes |-> Float(minute_match.g1),
                         rate_per_minute |-> Float(minute_match.g2)]
                   ELSE NoKeys
    IN  IF \/ mile_match.ok /\ ~(IsFloat(mile_match.g1) /\ IsFloat(mile_match.g2))
           \/ minute_match.ok /\ ~(IsFloat(minute_match.g1) /\ IsFloat(minute_match.g2))
        THEN ValueError
        ELSE Returns(miles @@ minutes)

\* f"{m}" of the float m, given in hundredths: repr() writes at least one and
\* no more decimals than needed
Format(h) ==
    Str(h \div 100) \o <<".">>
    \o (IF h % 10 = 0 THEN Str((h % 100) \div 10)
        ELSE <<DigitChars[((h % 100) \div 10) + 1], DigitChars[(h % 10) + 1]>>)

\* '<m> mile x $<r>/mile'
DistanceText(m, r) ==
    Format(m) \o <<" ", "mile", " ", "times", " ", "$">> \o Format(r) \o <<"/", "mile">>

\* the spellings of a unit in a details text
UnitWords == {<<"mile">>, <<"MILE">>, <<"min">>, <<"min", "ute">>, <<"km">>}
\* number tokens: runs of up to MaxDigits characters out of two digits and the
\* point, and three rates, one of them malformed
NumberRuns == SeqsUpTo({"1", "5", "."}, MaxDigits)
RateRuns == {<<"2">>, <<"0", ".", "5">>, <<"1", ".", ".">>}

\* a details text put together from its parts
DetailText(pre, n1, sp, u1, x, n2, u2) ==
    pre \o n1 \o sp \o u1 \o sp \o <<x>> \o sp \o <<"$">> \o n2 \o <<"/", u2>>

\* the details text of a fare item: a formatted distance, or any text put
\* together from a number, a unit, a sign, a rate and a unit
InitParse ==
    /\ NoProgram
    /\ \/ \E m, r \in 0..MaxCents :
            calc = [op |-> "parse", text |-> DistanceText(m, r), m |-> m, r |-> r,
                    at |-> "call", out |-> Returns(NoKeys)]
       \/ \E pre \in {<<>>, <<"9", " ">>}, n1 \in NumberRuns, sp \in {<<>>, <<" ">>},
             u1 \in UnitWords, x \in {"times", "x"}, n2 \in RateRuns,
             u2 \in {"mile", "MILE", "min"} :
            calc = [op |-> "parse", text |-> DetailText(pre, n1, sp, u1, x, n2, u2),
                    m |-> NoDate, r |-> NoDate, at |-> "call", out |-> Returns(NoKeys)]

\* weekloop_2026-02-15.py:400: parsed = parse_fare_line(lbl, detail)
ParseLine ==
    /\ calc.op = "parse" /\ calc.at = "call"
    /\ calc' = [calc EXCEPT !.at = "done", !.out = parse_fare_line("Distance", calc.text)]
    /\ UNCHANGED progVars

NextParse == ParseLine
SpecParse == InitParse /\ [][NextParse]_vars

(* ---- the fare items of one trip page, scrape_trip_details ---- *)
\* '<m> min x $<r>/min'
TimeText(m, r) ==
    Format(m) \o <<" ", "min", " ", "times", " ", "$">> \o Format(r) \o <<"/", "min">>

\* details texts of fare items: distances and times with and without a rate,
\* and a text without either
FareTexts == {DistanceText(150, 99), DistanceText(200, 120), DistanceText(200, 0),
              TimeText(500, 20), TimeText(300, 0), <<"(", "km">>}

\* distance_miles: float | None = None
None == -1

Accumulate_firstRate(acc, parsed) ==
    LET has(key) == key \in DOMAIN parsed
        plus(sum, key) == IF has(key) THEN (IF sum = None THEN 0 ELSE sum) + parsed[key]
                          ELSE sum
        rate(old, key) == IF has(key) /\ parsed[key] /= 0 /\ old = None
                          THEN parsed[key] ELSE old
    IN  [distance_miles |-> plus(acc.distance_miles, "miles"),
         total_trip_minutes |-> plus(acc.total_trip_minutes, "minutes"),
         rate_per_mile |-> rate(acc.rate_per_mile, "rate_per_mile"),
         rate_per_minute |-> rate(acc.rate_per_minute, "rate_per_minute")]

\* weekloop_2026-02-15.py:401-408
Accumulate(acc, parsed) ==
    LET has(key) == key \in DOMAIN parsed
        plus(sum, key) == IF has(key) THEN (IF sum = None THEN 0 ELSE sum) + parsed[key]
                          ELSE sum
        rate(old, key) == IF has(key) /\ parsed[key] /= 0 /\ (old = None \/ parsed[key] > 0)
                          THEN parsed[key] ELSE old
    IN  [distance_miles |-> plus(acc.distance_miles, "miles"),
         total_trip_minutes |-> plus(acc.total_trip_minutes, "minutes"),
         rate_per_mile |-> rate(acc.rate_per_mile, "rate_per_mile"),
         rate_per_minute |-> rate(acc.rate_per_minute, "rate_per_minute")]

\* weekloop_2026-02-15.py:382-390: the details of the fare items of a page,
\* every one with its label and value
InitFare ==
    /\ NoProgram
    /\ \E d \in SeqsUpTo(FareTexts, MaxItems) :
         calc = [op |-> "fare", details |-> d, k |-> 0, at |-> "loop",
                 acc |-> [distance_miles |-> None, total_trip_minutes |-> None,
                          rate_per_mile |-> None, rate_per_minute |-> None]]

\* weekloop_2026-02-15.py:391-408: one turn of the loop over the fare items
AddItem ==
    /\ calc.op = "fare" /\ calc.at = "loop" /\ calc.k < Len(calc.details)
    /\ LET parsed == parse_fare_line("label", calc.details[calc.k + 1])
       IN  calc' = IF parsed.raises = "nothing"
                   THEN [calc EXCEPT !.k = @ + 1, !.acc = Accumulate(@, parsed.result)]
                   ELSE [calc EXCEPT !.at = "raised"]
    /\ UNCHANGED progVars

NextFare == AddItem
SpecFare == InitFare /\ [][NextFare]_vars

(* ---- the sweep of extract_trip_data over the li elements of a page ---- *)
\* the text of an li element: the substrings of the keyword rules it has, and
\* the first dollar amount in it, if any ("Fare $": 'Fare' comes right before
\* the amount)
ItemTexts ==
    {{"Base"}, {"Base", "Fare"}, {"Distance", "mile"}, {"Time", "minute"}, {"Surge"},
     {"Promotion"}, {"Minimum Fare", "Minimum", "Fare"}, {"Wait Time", "Time"},
     {"Wait Time", "Time", "minute"}, {"Your earnings"}, {"Total", "Your earnings"},
     {"Tip"}, {"Tip", "included"}, {"Fare", "Fare $"}}
NoAmount == "none"
Amounts == {NoAmount, "0", "1.00"}
LiItems == [words : ItemTexts, amount : Amounts]

\* main.py:77-87: the keyword rule of a field
Rule(f, text) ==
    CASE f = "base" -> "Base" \in text /\ "Fare" \notin text
      [] f = "distancePay" -> "Distance" \in text /\ "mile" \in text
      [] f = "timePay" -> "Time" \in text /\ "minute" \in text
      [] f = "surge" -> "Surge" \in text
      [] f = "promotion" -> "Promotion" \in text
      [] f = "minFare" -> "Minimum Fare" \in text
      [] f = "waitTime" -> "Wait Time" \in text
      [] f = "totalEarnings" -> "Your earnings" \in text /\ "Total" \notin text
      [] f = "tip" -> "Tip" \in text /\ "included" \notin text
      [] f = "fare" -> /\ "Fare" \in text /\ "customer" \notin text /\ "Minimum" \notin text
                       /\ "Fare $" \in text
SweptFields == {"base", "distancePay", "timePay", "surge", "promotion", "minFare",
                "waitTime", "totalEarnings", "tip", "fare"}

\* main.py:72-87: one li element; value is the first amount or '0', and fare
\* is assigned only from a match of its own pattern
SweepOne(fields, item) ==
    LET value == IF item.amount /= NoAmount THEN item.amount ELSE "0"
    IN  [f \in SweptFields |->
            IF ~Rule(f, item.words) THEN fields[f]
            ELSE IF f = "fare" THEN (IF item.amount /= NoAmount THEN item.amount ELSE fields[f])
            ELSE value]

\* main.py:107-110: the amount of a '$<n> tip included' phrase replaces a tip
\* that is '0'
TipFallback(tip, included) == IF tip = "0" /\ included /= NoAmount THEN included ELSE tip

\* main.py:59-60, 70: the fields before the sweep, the li elements of the page
\* and the amount of its 'tip included' phrase, if it has one
InitSweep ==
    /\ NoProgram
    /\ \E li \in SeqsUpTo(LiItems, MaxLi), inc \in {NoAmount, "3.00"} :
         calc = [op |-> "sweep", items |-> li, included |-> inc, k |-> 0, at |-> "sweep",
                 fields |-> [f \in SweptFields |-> "0"]]

\* main.py:71-88: items.forEach
SweepItem ==
    /\ calc.op = "sweep" /\ calc.at = "sweep" /\ calc.k < Len(calc.items)
    /\ calc' = [calc EXCEPT !.k = @ + 1, !.fields = SweepOne(@, calc.items[calc.k + 1])]
    /\ UNCHANGED progVars

\* main.py:107-110, after the sweep
AfterSweep ==
    /\ calc.op = "sweep" /\ calc.at = "sweep" /\ calc.k = Len(calc.items)
    /\ calc' = [calc EXCEPT !.at = "done",
                            !.fields.tip = TipFallback(@, calc.included)]
    /\ UNCHANGED progVars

NextSweep == SweepItem \/ AfterSweep
SpecSweep == InitSweep /\ [][NextSweep]_vars

(* -------------------------------- claims -------------------------------- *)
InLoop == variant \in {"forward", "merged", "test"}
Writes == variant \in {"forward", "merged"}

\* number of loads at the end of the load history that listed no trip
RECURSIVE TrailingEmpty(_, _)
TrailingEmpty(h, k) ==
    IF k = 0 THEN 0
    ELSE IF h[k].n = 0 THEN 1 + TrailingEmpty(h, k - 1)
    ELSE 0

\* the lines of the CSV that are data rows written by this run, by earlier runs
NewRows == {j \in 1..Len(csv.rows) : j > csvAtStart /\ csv.rows[j].kind = "row"}
OldRows == {j \in 1..Len(csv.rows) : j <= csvAtStart /\ csv.rows[j].kind = "row"}
\* the identifiers marked in visited.jsonl before this run started
OldMarks == {visitedFile[i] : i \in 1..marksAtStart}

\* C1: in each of the three week loops, as soon as three loads in a row listed
\* no trip the run is over: that third load is the last load of the run, the
\* loop has ended by the empty-streak rule, and nothing was navigated to or
\* extracted after it (the page still shows the week of that load).
C1_EmptyStreakStops ==
    InLoop =>
        \A k \in 3..Len(loads) :
            (loads[k - 2].n = 0 /\ loads[k - 1].n = 0 /\ loads[k].n = 0)
            => /\ k = Len(loads)
               /\ pc = "done" /\ stop = "streak"
               /\ shown = loads[k].week
               /\ urls = <<>> /\ trips = <<>>

\* C1 happens: a run stopped after exactly three empty weeks although a further
\* week lay ahead in the direction of the walk.
C1_Witness ==
    /\ InLoop /\ pc = "done" /\ stop = "streak"
    /\ Len(loads) = EmptyLimit
    /\ IF variant = "forward" THEN week_date + DaysPerWeek <= Today
       ELSE HasPrevious(shown)

\* C2: the streak counter is the number of loads since the last load that
\* listed a trip, so a week with trips resets it; and once a later week has
\* been loaded, every trip of an earlier week is a row of the CSV.
C2_StreakReset ==
    (InLoop /\ pc /= "boot") =>
        /\ empty = TrailingEmpty(loads, Len(loads))
        /\ (stop = "streak" => empty = EmptyLimit)
        /\ Writes =>
             \A k \in 1..(Len(loads) - 1) : \A i \in 1..loads[k].n :
                 \E j \in NewRows : csv.rows[j].trip = TripOf(loads[k].week, i)

\* C2 happens: the loads of a run were empty, empty, trips, empty, empty,
\* empty; the run stopped by the streak rule with the trips in the CSV.
C2_Witness ==
    /\ Writes /\ pc = "done" /\ stop = "streak"
    /\ [k \in 1..Len(loads) |-> loads[k].n] = <<0, 0, MaxTrips, 0, 0, 0>>
    /\ Cardinality(NewRows) = MaxTrips

\* C3: on a portal that keeps the selected week, a run that stopped by the
\* empty-streak rule found three different weeks empty: its last three loads
\* are loads of three different weeks.
C3_StreakCountsDistinctWeeks ==
    (InLoop /\ sticky /\ stop = "streak") =>
        /\ Len(loads) >= EmptyLimit
        /\ Cardinality({loads[k].week :
                          k \in (Len(loads) - EmptyLimit + 1)..Len(loads)}) = EmptyLimit

C5_MarkThenContains ==
    (variant = "ckpt" /\ pc = "ktrip" /\ idx <= Len(urls)) =>
        (TripId(urls[idx]) \in fetch_visited(visitedFile)
            => TripId(urls[idx]) \in visited)

\* C6: in the checkpoint variant a run, also one started after a kill, writes
\* no row for a trip that had a row when the run started.
C6_NoRowTwiceAfterRestart ==
    variant = "ckpt" =>
        \A i \in OldRows, j \in NewRows : csv.rows[i].trip /= csv.rows[j].trip

\* C7: every trip with a row in the CSV is marked in visited.jsonl.
C7_RowOnlyAfterMark ==
    variant = "ckpt" =>
        \A j \in 1..Len(csv.rows) :
            csv.rows[j].kind = "row" => csv.rows[j].trip \in fetch_visited(visitedFile)

\* C8: a run of the forward or the merged variant appends no row for a trip
\* that was a row of the CSV when the run started.
C8_DateScanResume ==
    Writes => \A i \in OldRows, j \in NewRows : csv.rows[i].trip /= csv.rows[j].trip

\* C9: the CSV is absent and empty, or it is one header line followed by one
\* data row per record written, over all runs.
C9_CsvStructure ==
    IF csv.exists
    THEN /\ Len(csv.rows) = 1 + written
         /\ csv.rows[1] = HEADER
         /\ \A j \in 2..Len(csv.rows) : csv.rows[j].kind = "row"
    ELSE csv.rows = <<>> /\ written = 0

\* C9 happens: a second run of a week loop appended rows to the CSV that the
\* first run had created.
C9_Witness ==
    /\ Writes /\ run > 1
    /\ OldRows /= {} /\ NewRows /= {}

\* C10: in the forward variant every trip-set load found the page on the week
\* of the cursor.
C10_LoaderSeesCursorWeek ==
    variant = "forward" => \A k \in 1..Len(loads) : loads[k].week = loads[k].cursor


\* the weeks of this run whose trips have all been gone through
Finished == IF pc = "scrape" THEN Len(loads) - 1 ELSE Len(loads)
\* trip t has a row written by this run
HasNewRow(t) == \E j \in NewRows : csv.rows[j].trip = t

\* C11: a trip that raises does not end its week: the links of the week are
\* tried one after the other, all of them by the time the week is over, and
\* every trip that was tried and did not raise has its row -- in the forward
\* and merged variants once the week is saved, in the checkpoint variant at
\* once.
C11_TripFailureIsolated ==
    /\ pc \in {"scrape", "ktrip"} => hist.tried = SubSeq(urls, 1, idx - 1)
    /\ pc = "kmark" => hist.tried = SubSeq(urls, 1, idx)
    /\ Writes =>
         \A k \in 1..Finished : \A i \in 1..loads[k].n :
             TripOf(loads[k].week, i) \notin hist.failed
                 => HasNewRow(TripOf(loads[k].week, i))
    /\ variant = "ckpt" =>
         \A i \in 1..Len(hist.tried) :
             (TripId(hist.tried[i]) \notin visited /\ TripId(hist.tried[i]) \notin hist.failed)
                 => HasNewRow(TripId(hist.tried[i]))

\* C11 happens: the first trip of a week raised, the trip after it was
\* extracted and its row is in the CSV.
C11_Witness ==
    /\ Writes /\ pc \in {"top", "prompt2", "done"}
    /\ \E k \in 1..Len(loads) :
          /\ loads[k].n > 1
          /\ TripOf(loads[k].week, 1) \in hist.failed
          /\ ~HasNewRow(TripOf(loads[k].week, 1))
          /\ HasNewRow(TripOf(loads[k].week, 2))

\* C12: a trip whose processing raised in this run (and did not succeed
\* since) has no row written by this run and is not marked in visited.jsonl.
C12_FailedTripAbsent ==
    \A t \in hist.failed :
        /\ ~HasNewRow(t)
        /\ variant = "ckpt" => t \notin fetch_visited(visitedFile)

\* C13: on a portal that keeps the selected week, after the operator answered
\* retry the loop is back on the week of the iteration that raised: the page
\* shows that week and the cursor is the cursor that iteration started with.
C13_RetrySameWeek ==
    (Writes /\ sticky /\ pc = "top" /\ hist.answer = "retry") =>
        /\ shown = hist.week
        /\ variant = "forward" => week_date = hist.cursor

\* C14: on a portal that keeps the selected week, after the operator answered
\* skip the walk is exactly one week past the iteration that raised (where the
\* history has such a week), and this run wrote no row of that iteration's week.
C14_SkipOneWeekNothingSaved ==
    (Writes /\ sticky /\ pc = "top" /\ hist.answer = "skip") =>
        /\ variant = "forward" => week_date = hist.cursor + DaysPerWeek
        /\ (variant = "merged" /\ HasPrevious(hist.week)) => shown = hist.week - DaysPerWeek
        /\ \A j \in NewRows : csv.rows[j].date /= hist.week

\* C15: the forward variant never loads the trip set with the cursor or the
\* page on a week that starts after today, writes no row of such a week, and
\* once the cursor is past today the run is at the head of the loop, about to
\* end, or over; a run that ended as "future" has its cursor past today.
C15_ForwardDateBound ==
    variant = "forward" =>
        /\ \A k \in 1..Len(loads) : loads[k].cursor <= Today /\ loads[k].week <= Today
        /\ \A j \in NewRows : csv.rows[j].date <= Today
        /\ (pc /= "boot" /\ week_date > Today) => pc \in {"top", "done", "crashed"}
        /\ (pc = "done" /\ stop = "future") => week_date > Today

\* C15 happens: the run was started on a date of next week and ended without
\* a single load.
C15_Witness ==
    /\ variant = "forward" /\ pc = "done" /\ stop = "future"
    /\ week_date > Today /\ shown > Today
    /\ loads = <<>> /\ week_num = 1

\* C16: in the backward variants that write, once the Previous control was not
\* found no further week is loaded and the loop is not resumed.
C16_NoPreviousEndsWalk ==
    (variant \in {"merged", "ckpt"} /\ hist.missing > 0) =>
        /\ Len(loads) = hist.missing
        /\ pc \notin {"top", "scrape", "collect", "ktrip"}

\* C17: every week change, Load-more click, trip-page open and extraction was
\* made after a probe of the challenge monitor that came after the last page
\* transition.
C17_ProbeBeforeEveryStep ==
    Writes => hist.unprobed = {}

\* C18: when a challenge was acknowledged at the head of an iteration, the
\* trip set then loaded is that of the week the iteration was about to process.
C18_ChallengeKeepsWeek ==
    (InLoop /\ hist.recovered) => hist.week = hist.intended

\* C19: no navigation or extraction step is taken between the return of
\* wait_for_security_clear and the next probe of the challenge monitor.
C19_ReprobeAfterAck ==
    InLoop => hist.unchecked = {}

\* C20: in the forward and merged variants no exception leaves main().
C20_NoUncaughtException ==
    Writes => stop /= "uncaught"

\* C21: once the operator has answered 'stop' the run is over, and every record
\* extracted before the prompt has its row in the CSV.
C21_StopKeepsRecords ==
    (Writes /\ pc = "done" /\ stop = "operator") =>
        \A i \in 1..Len(trips) : HasNewRow(trips[i].trip)

\* C29: in the forward and merged variants, while the trips of a week are gone
\* through at most one extracted record is not yet in the CSV.
C29_AtMostOneUnsaved ==
    (Writes /\ pc = "scrape") =>
        Cardinality({i \in 1..Len(trips) : ~HasNewRow(trips[i].trip)}) <= 1

\* C30: in the forward variant the cursor is a Monday after every step: the
\* first one sets it 0 to 6 days before the start date, every later one leaves
\* it or adds exactly seven days.
C30_CursorIsMonday ==
    [][(variant = "forward" /\ pc' /= "boot") =>
          /\ week_date' % DaysPerWeek = 0
          /\ IF pc = "boot"
             THEN hist'.start - week_date' \in 0..(DaysPerWeek - 1)
             ELSE week_date' \in {week_date, week_date + DaysPerWeek}]_vars

\* C30 happens: a run started on a Thursday, its cursor on the Monday before
C30_Witness ==
    /\ variant = "forward" /\ pc = "top" /\ week_num = 0
    /\ hist.start % DaysPerWeek = 3
    /\ week_date = hist.start - 3

\* C27: click_load_more has returned only when no Load-more control is left on
\* the page, also when a click on the visible control failed.
C27_ReturnsWhenExhausted ==
    (calc.op = "load" /\ calc.at /= "loop") => calc.more = 0

\* position of the first occurrence of x in s
FirstAt(s, x) == CHOOSE k \in 1..Len(s) : s[k] = x /\ \A j \in 1..(k - 1) : s[j] /= x

\* C28: get_trip_urls lists every href of the page, each one once, in the
\* order in which they first occur; a page without trip anchors gives <<>>.
C28_DistinctInFirstOrder ==
    (calc.op = "load" /\ calc.at = "listed") =>
        LET a == calc.anchors
            u == calc.urls
        IN  /\ {u[i] : i \in 1..Len(u)} = {a[k] : k \in 1..Len(a)}
            /\ \A i, j \in 1..Len(u) : i < j => u[i] /= u[j] /\ FirstAt(a, u[i]) < FirstAt(a, u[j])
            /\ a = <<>> => u = <<>>

\* C28 happens: a page lists a trip twice with another one in between
C28_Witness ==
    /\ calc.op = "load" /\ calc.at = "listed"
    /\ Len(calc.anchors) = 3 /\ calc.anchors[1] = calc.anchors[3]
    /\ Len(calc.urls) = 2

\* the calendar dates of the years the Mondays fall in, and the number of
\* days from 2024-01-01 to a date, counted month by month
CalendarDates ==
    {d \in [year : BaseYear..(BaseYear + 3), month : 1..12, day : 1..31] :
        d.day <= DaysInMonth(d.year, d.month)}
RECURSIVE DaysBefore(_, _)
DaysBefore(y, m) ==
    IF y = BaseYear /\ m = 1 THEN 0
    ELSE IF m = 1 THEN DaysBefore(y - 1, 12) + 31
    ELSE DaysBefore(y, m - 1) + DaysInMonth(y, m - 1)
Ordinal(d) == DaysBefore(d.year, d.month) + d.day - 1

\* C25: the text format_week_range gives for Monday M is
\* '<Mon> <D>, <YYYY> - <Mon> <D>, <YYYY>' (with an en dash) for the calendar
\* dates of M and of M + 7 days, the day numbers written without a leading
\* zero; for Monday 2024-07-01 it is 'Jul 1, 2024 - Jul 8, 2024'.
C25_WeekRangeText ==
    (calc.op = "format" /\ calc.at = "done") =>
        /\ \E a \in CalendarDates :
             /\ Ordinal(a) = calc.monday
             /\ \E b \in CalendarDates :
                  /\ Ordinal(b) = calc.monday + 7
                  /\ calc.text = DateText(a.month, Str(a.day), Str(a.year))
                                 \o <<" ", EnDash, " ">>
                                 \o DateText(b.month, Str(b.day), Str(b.year))
        /\ calc.text[3] /= "0"
        /\ calc.monday = Ordinal([year |-> 2024, month |-> 7, day |-> 1]) =>
             calc.text = <<"Jul", " ", "1", ",", " ", "2", "0", "2", "4", " ", EnDash, " ",
                           "Jul", " ", "8", ",", " ", "2", "0", "2", "4">>

\* C25 happens: the week from Monday 2024-12-30 to 2025-01-06 was formatted
C25_Witness ==
    /\ calc.op = "format" /\ calc.at = "done"
    /\ calc.text = <<"Dec", " ", "3", "0", ",", " ", "2", "0", "2", "4", " ", EnDash, " ",
                     "Jan", " ", "6", ",", " ", "2", "0", "2", "5">>

\* the elements a field of the record is taken from
Sources ==
    [distancePay |-> {"Distance"}, timePay |-> {"Time"}, surge |-> {"Surge"},
     promotion |-> {"Promotion"}, base |-> {"Base"}, fare |-> {"Fare"},
     tip |-> {"Tip", "tipIncluded"}, minFare |-> {"Minimum Fare"},
     waitTime |-> {"Wait Time"}, regionFee |-> {"Region or City Fee"},
     airportFee |-> {"Airport Fee"}, insuranceFee |-> {"insurance and operational"},
     uberFee |-> {"Uber Service Fee"}, points |-> {"pointsEl"},
     distance |-> {"distanceEl"}, durationMin |-> {"duration"},
     perMile |-> {"mileRate"}, perMin |-> {"minRate"},
     totalEarnings |-> {"Your earnings", "heading"},
     customerFare |-> {"Total customer fare"}]
\* the monetary and numeric fields of the record
NumericFields == DOMAIN Sources
NotFound(f) == Sources[f] \cap calc.page = {}

\* C26 as stated: the record is built whatever is missing, and every monetary
\* and numeric field none of whose elements is on the page holds '0'.
C26_ZeroDefaults ==
    (calc.op = "extract" /\ calc.at = "done") =>
        \A f \in NumericFields : NotFound(f) => calc.record[f] = "0"

\* C26 amended: the record is built whatever is missing; every monetary field,
\* the points, the duration in minutes and the two rates hold '0' when none of
\* their elements is on the page, and the distance then is the empty string.
C26_Defaults ==
    (calc.op = "extract" /\ calc.at = "done") =>
        /\ DOMAIN calc.record = NumericFields \cup {"date", "time", "rideType", "city",
                                                    "pickup", "dropoff"}
        /\ \A f \in NumericFields \ {"distance"} : NotFound(f) => calc.record[f] = "0"
        /\ NotFound("distance") => calc.record.distance = ""

\* C26 happens: a page without duration and without points element
C26_Witness ==
    /\ calc.op = "extract" /\ calc.at = "done"
    /\ calc.page = Elements \ {"duration", "pointsEl"}
    /\ calc.record.durationMin = "0" /\ calc.record.points = "0"

\* the value, in units of 10^-Places, of a number given in hundredths
Hundredths(h) == h * (Unit \div 100)
HasWord(t, w) == \E k \in 1..Len(t) : t[k] = w

\* C22 as stated: the text '<m> mile x $<r>/mile' of two non-negative numbers
\* of up to two decimals gives miles = m and rate_per_mile = r, and a text
\* that does not contain the word 'mile' gives no miles key.
C22_DistanceRule ==
    (calc.op = "parse" /\ calc.at = "done") =>
        /\ calc.m /= NoDate =>
             /\ calc.out.raises = "nothing"
             /\ calc.out.result.miles = Hundredths(calc.m)
             /\ calc.out.result.rate_per_mile = Hundredths(calc.r)
        /\ ~HasWord(calc.text, "mile") => "miles" \notin Keys(calc.out)

\* C22 amended: as C22, for a text that does not contain the word 'mile' in
\* any letter case.
C22_DistanceRuleAnyCase ==
    (calc.op = "parse" /\ calc.at = "done") =>
        /\ calc.m /= NoDate =>
             /\ calc.out.raises = "nothing"
             /\ calc.out.result.miles = Hundredths(calc.m)
             /\ calc.out.result.rate_per_mile = Hundredths(calc.r)
        /\ ~(\E k \in 1..Len(calc.text) : Lower(calc.text[k]) = "mile") =>
             "miles" \notin Keys(calc.out)

\* C22 happens: '1.05 mile x $0.1/mile' was parsed
C22_Witness ==
    /\ calc.op = "parse" /\ calc.at = "done"
    /\ calc.m = 105 /\ calc.r = 10
    /\ calc.text = <<"1", ".", "0", "5", " ", "mile", " ", "times", " ", "$",
                     "0", ".", "1", "/", "mile">>
    /\ calc.out.result.miles = Hundredths(105)

\* C23: parse_fare_line returns a dictionary for every text, the empty one
\* when neither pattern matches.
C23_NeverRaises ==
    (calc.op = "parse" /\ calc.at = "done") =>
        /\ calc.out.raises = "nothing"
        /\ (~Search(calc.text, "mile").ok /\ ~Search(calc.text, "min").ok) =>
             Keys(calc.out) = {}

\* what parse_fare_line finds in the i-th fare item
Parsed(i) == parse_fare_line("label", calc.details[i]).result
\* the items gone through so far that have the key, and those with a rate
\* other than zero
With(key) == {i \in 1..calc.k : key \in DOMAIN Parsed(i)}
Rated(key) == {i \in With(key) : Parsed(i)[key] /= 0}
RECURSIVE SumOver(_, _)
SumOver(I, key) ==
    IF I = {} THEN 0
    ELSE LET i == CHOOSE j \in I : TRUE
         IN  Parsed(i)[key] + SumOver(I \ {i}, key)
LastOf(I) == CHOOSE i \in I : \A j \in I : j <= i

\* C24: after any number of fare items, distance_miles is the sum of the miles
\* of the items that match the distance pattern and total_trip_minutes the sum
\* of the minutes of those that match the time pattern (unset when there is
\* none), and each rate is the rate of the last item with a rate other than
\* zero (unset when there is none); items of 1.5 and 2.0 miles give 3.5 miles
\* and the rate of the second.
C24_FareAccumulation ==
    calc.op = "fare" =>
        /\ calc.acc.distance_miles =
             IF With("miles") = {} THEN None ELSE SumOver(With("miles"), "miles")
        /\ calc.acc.total_trip_minutes =
             IF With("minutes") = {} THEN None ELSE SumOver(With("minutes"), "minutes")
        /\ calc.acc.rate_per_mile =
             IF Rated("rate_per_mile") = {} THEN None
             ELSE Parsed(LastOf(Rated("rate_per_mile"))).rate_per_mile
        /\ calc.acc.rate_per_minute =
             IF Rated("rate_per_minute") = {} THEN None
             ELSE Parsed(LastOf(Rated("rate_per_minute"))).rate_per_minute

\* C24 happens: items of 1.5 miles at $0.99 and 2.0 miles at $1.2 give 3.5
\* miles at $1.2
C24_Witness ==
    /\ calc.op = "fare" /\ calc.k = 2
    /\ calc.details = <<DistanceText(150, 99), DistanceText(200, 120)>>
    /\ calc.acc.distance_miles = Hundredths(350)
    /\ calc.acc.rate_per_mile = Hundredths(120)

\* the fields C31 names
Classified == SweptFields \ {"fare"}
\* the li elements swept so far that match the rule of field f, and those of
\* them that carry an amount
Matching(f) == {i \in 1..calc.k : Rule(f, calc.items[i].words)}
Priced(f) == {i \in Matching(f) : calc.items[i].amount /= NoAmount}

\* C31: after the sweep each classified field holds the amount of the last li
\* element that matches its rule, and a matching element without an amount
\* does not erase the amount an earlier one has set.
C31_LastAmountWins ==
    (calc.op = "sweep" /\ calc.at = "sweep" /\ calc.k = Len(calc.items)) =>
        \A f \in Classified :
            calc.fields[f] =
                IF Priced(f) = {} THEN "0" ELSE calc.items[LastOf(Priced(f))].amount

\* C32: the amount of the 'tip included' phrase is the tip exactly when no li
\* element matched the explicit tip rule; when one matched, the tip is what
\* the last such element gave, whatever its amount.
C32_TipFallback ==
    (calc.op = "sweep" /\ calc.at = "done") =>
        IF Matching("tip") = {}
        THEN calc.fields.tip = IF calc.included /= NoAmount THEN calc.included ELSE "0"
        ELSE LET last == calc.items[LastOf(Matching("tip"))]
             IN  calc.fields.tip = IF last.amount /= NoAmount THEN last.amount ELSE "0"

\* C33: in the checkpoint variant at most one trip page is open at any time,
\* and none is open between two trips, whether the last trip returned or
\* raised.
C33_OnePageAtATime ==
    variant = "ckpt" =>
        /\ hist.open <= 1
        /\ pc /= "kmark" => hist.open = 0

\* C33 happens: one trip of the week raised, the other one has its row, and
\* no page is open
C33_Witness ==
    /\ variant = "ckpt" /\ pc = "ktrip" /\ idx > Len(urls)
    /\ hist.failed /= {} /\ written = 1
    /\ hist.open = 0

\* C34: in the forward and merged variants no trip has two rows written by
\* the same run.
C34_OneRowPerTripInARun ==
    Writes => \A i, j \in NewRows : csv.rows[i].trip = csv.rows[j].trip => i = j

C36_PreviousIsOneWeekEarlier ==
    [][(variant = "merged" /\ pc = "scrape" /\ pc' = "top")
          => shown' = loads[Len(loads)].week - DaysPerWeek]_vars

\* C37: every row written by a run of the forward or merged variant was read
\* from a trip page, never from the challenge screen.
C37_RowsComeFromTripPages ==
    Writes => \A j \in NewRows : csv.rows[j].trip /= TripId(ChallengeScreen)

====
